---- MODULE Spec2Model ----
(***************************************************************************)
(* BLI::FixedArrayAllocator (source/blender/blenlib/                       *)
(* BLI_fixed_array_allocator.hpp): a recycling pool of equally long        *)
(* arrays.  One allocator instance, its heap blocks, the raw checkouts of  *)
(* its callers and their ScopedAllocation handles.                         *)
(*                                                                         *)
(* Every action is one whole member-function call, executed atomically     *)
(* (single-threaded use, or callers serialised by an external lock).       *)
(***************************************************************************)
EXTENDS Integers, Sequences, FiniteSets

(* ---------------------------- bounds ----------------------------------- *)
NumThreads == 2        \* callers sharing the allocator
MaxBuffers == 2        \* blocks the heap can supply before it is exhausted
MaxElementSize == 2    \* element sizes 1..MaxElementSize are requested
NumHandles == 2        \* ScopedAllocation objects that come to exist
MaxFailures == 1       \* failed heap allocations that are explored
MaxLaneLength == 2     \* buffers an unvalidated deallocate_array piles onto one lane

Threads == 1..NumThreads
Pointers == 1..MaxBuffers
ElementSizes == 1..MaxElementSize
Handles == 1..NumHandles

nullptr == 0

(* ------------------- 32-bit unsigned arithmetic ------------------------ *)
(* A uint is kept as two 16-bit limbs <<high, low>>.  Element sizes are    *)
(* small naturals (they are lane indices), array lengths are any uint.     *)
LimbBase == 65536

uint(high, low) == <<high, low>>

\* The exact product of a uint and a small natural, as three limbs.
MathProduct(n, s) ==
    LET low == n[2] * s
        high == n[1] * s + (low \div LimbBase)
    IN <<high \div LimbBase, high % LimbBase, low % LimbBase>>

\* `m_array_length * element_size` in uint: the product modulo 2^32, then
\* widened to the size_t argument of MEM_mallocN_aligned (top limb zero).
uint_mul(n, s) ==
    LET p == MathProduct(n, s) IN <<0, p[2], p[3]>>

\* a - b and a + b in uint: modulo 2^32, limb by limb.
uint_sub(a, b) ==
    LET borrow == IF a[2] < b[2] THEN 1 ELSE 0
    IN <<(a[1] - b[1] - borrow + LimbBase) % LimbBase,
         (a[2] - b[2] + LimbBase) % LimbBase>>

uint_add(a, b) ==
    LET carry == (a[2] + b[2]) \div LimbBase
    IN <<(a[1] + b[1] + carry) % LimbBase, (a[2] + b[2]) % LimbBase>>

uint_ge(a, b) == a[1] > b[1] \/ (a[1] = b[1] /\ a[2] >= b[2])

\* The length recorded where no block was requested.
NoRequest == <<0, 0, 0>>

\* Array lengths the allocator is constructed with: 0 and 2^31.
ArrayLengths == {uint(0, 0), uint(32768, 0)}

\* The ways control leaves the scope of a ScopedAllocation object.
ExitPaths == {"normal", "early_return", "exception"}

VARIABLES
    requested_length,   \* the array_length the constructor was called with
    lifecycle,          \* "alive" | "destroyed" | "invalid"
    m_array_length,     \* uint, as limbs
    m_all_pointers,     \* sequence of pointers (the master list)
    m_pointer_stacks,   \* sequence of lanes; lane for size S at index S
    heap,               \* per block: state, requested length, times freed
    null_frees,         \* MEM_freeN(nullptr) calls made
    held,               \* per thread: set of <<ptr, element_size>> raw checkouts
    handles,            \* per ScopedAllocation object: its members and history
    free_history,       \* <<ptr, element_size>> of resident buffers, oldest return first
    dangling_use,       \* a member function ran on the destroyed allocator
    result,             \* what the latest call gave its caller
    zero_size_call,     \* what a call with element_size 0 did to the lane vector
    typed,              \* buffers that went through allocate_array<T> / deallocate_array<T>
    racy                \* per thread: where it is inside an unlocked allocate_array

\* The variables only the calls outside the serialised, size >= 1 protocol write.
aux == <<zero_size_call, typed, racy>>

vars == <<requested_length, lifecycle, m_array_length, m_all_pointers, m_pointer_stacks, heap,
          null_frees, held, handles, free_history, dangling_use, result, aux>>

(* --------------------- containers (BLI_small_stack.hpp) ---------------- *)
SmallStack_size(stack) == Len(stack)

SmallStack_push(stack, value) == Append(stack, value)

\* pop() returns the value pushed last ...
SmallStack_top(stack) == stack[Len(stack)]

\* ... and removes it.
SmallStack_pop(stack) == SubSeq(stack, 1, Len(stack) - 1)

append_n_times(vector, value, n) == vector \o [i \in 1..n |-> value]

(* ----------------------------- heap ------------------------------------ *)
UnusedPointers == {p \in Pointers : heap[p].state = "unused"}

Failures == Cardinality({i \in 1..Len(m_all_pointers) : m_all_pointers[i] = nullptr})

LeastUnused == CHOOSE p \in UnusedPointers : \A q \in UnusedPointers : p <= q

\* What the call at line 44 can return: a block no one has, or NULL when
\* the heap cannot supply one (a C allocation function has no other failure
\* channel than its result).
MEM_mallocN_aligned ==
    (IF UnusedPointers # {} THEN {LeastUnused} ELSE {})
    \cup (IF Failures < MaxFailures THEN {nullptr} ELSE {})


(* ------------------------- FixedArrayAllocator ------------------------- *)
\* A constructor that rejects a zero length.
FixedArrayAllocator_ctor_rejects_zero(array_length) ==
    IF array_length = uint(0, 0)
    THEN [lifecycle |-> "invalid", m_array_length |-> array_length,
          raised |-> "InvalidConfiguration"]
    ELSE [lifecycle |-> "alive", m_array_length |-> array_length, raised |-> "none"]

\* The constructor stores the length; it checks nothing.
FixedArrayAllocator_ctor(array_length) ==
    [lifecycle |-> "alive", m_array_length |-> array_length, raised |-> "none"]

array_size == m_array_length

\* A stack_for_element_size that takes element_size itself for the index.
stack_for_element_size_off_by_one(stacks, element_size) ==
    LET index == element_size
    IN IF index >= Len(stacks)
       THEN append_n_times(stacks, <<>>, index - Len(stacks) + 1)
       ELSE stacks

\* The lanes after stack_for_element_size(element_size) has grown them; the
\* lane it returns is the one at index element_size - 1 (here: element_size,
\* sequences being 1-based).
stack_for_element_size(stacks, element_size) ==
    LET index == element_size - 1
    IN IF index >= Len(stacks)
       THEN append_n_times(stacks, <<>>, index - Len(stacks) + 1)
       ELSE stacks

\* allocate_array that takes the oldest resident buffer of the lane.
allocate_array_fifo(element_size) ==
    LET stacks == stack_for_element_size(m_pointer_stacks, element_size)
        stack == stacks[element_size]
    IN IF SmallStack_size(stack) > 0
       THEN {[ret |-> Head(stack),
              stacks |-> [stacks EXCEPT ![element_size] = Tail(stack)],
              all_pointers |-> m_all_pointers,
              fresh |-> FALSE,
              len |-> NoRequest,
              raised |-> "none"]}
       ELSE {[ret |-> ptr,
              stacks |-> stacks,
              all_pointers |-> Append(m_all_pointers, ptr),
              fresh |-> TRUE,
              len |-> uint_mul(m_array_length, element_size),
              raised |-> "none"]
             : ptr \in MEM_mallocN_aligned}

\* allocate_array that reuses a resident buffer of any lane.
allocate_array_any_lane(element_size) ==
    LET stacks == stack_for_element_size(m_pointer_stacks, element_size)
        full == {S \in 1..Len(stacks) : SmallStack_size(stacks[S]) > 0}
    IN IF full # {}
       THEN {[ret |-> SmallStack_top(stacks[S]),
              stacks |-> [stacks EXCEPT ![S] = SmallStack_pop(stacks[S])],
              all_pointers |-> m_all_pointers,
              fresh |-> FALSE,
              len |-> NoRequest,
              raised |-> "none"] : S \in full}
       ELSE {[ret |-> ptr,
              stacks |-> stacks,
              all_pointers |-> Append(m_all_pointers, ptr),
              fresh |-> TRUE,
              len |-> uint_mul(m_array_length, element_size),
              raised |-> "none"]
             : ptr \in MEM_mallocN_aligned}

\* allocate_array that returns the top of the lane and leaves it there.
allocate_array_no_pop(element_size) ==
    LET stacks == stack_for_element_size(m_pointer_stacks, element_size)
        stack == stacks[element_size]
    IN IF SmallStack_size(stack) > 0
       THEN {[ret |-> SmallStack_top(stack),
              stacks |-> stacks,
              all_pointers |-> m_all_pointers,
              fresh |-> FALSE,
              len |-> NoRequest,
              raised |-> "none"]}
       ELSE {[ret |-> ptr,
              stacks |-> stacks,
              all_pointers |-> Append(m_all_pointers, ptr),
              fresh |-> TRUE,
              len |-> uint_mul(m_array_length, element_size),
              raised |-> "none"]
             : ptr \in MEM_mallocN_aligned}

\* allocate_array(element_size): every outcome the call can have, each with
\* the returned pointer, the lanes and master list afterwards, and the
\* length asked of the heap when a block was requested.
allocate_array(element_size) ==
    LET stacks == stack_for_element_size(m_pointer_stacks, element_size)
        stack == stacks[element_size]
    IN IF SmallStack_size(stack) > 0
       THEN {[ret |-> SmallStack_top(stack),
              stacks |-> [stacks EXCEPT ![element_size] = SmallStack_pop(stack)],
              all_pointers |-> m_all_pointers,
              fresh |-> FALSE,
              len |-> NoRequest,
              raised |-> "none"]}
       ELSE {[ret |-> ptr,
              stacks |-> stacks,
              all_pointers |-> Append(m_all_pointers, ptr),
              fresh |-> TRUE,
              len |-> uint_mul(m_array_length, element_size),
              raised |-> "none"]
             : ptr \in MEM_mallocN_aligned}

\* A deallocate_array that ignores a pointer that is already in the lane.
deallocate_array_once(stacks, ptr, element_size) ==
    LET grown == stack_for_element_size(stacks, element_size)
    IN IF \E i \in 1..Len(grown[element_size]) : grown[element_size][i] = ptr
       THEN grown
       ELSE [grown EXCEPT ![element_size] = SmallStack_push(grown[element_size], ptr)]

\* deallocate_array(ptr, element_size): the lanes afterwards.
deallocate_array(stacks, ptr, element_size) ==
    LET grown == stack_for_element_size(stacks, element_size)
    IN [grown EXCEPT ![element_size] = SmallStack_push(grown[element_size], ptr)]

\* ~FixedArrayAllocator(): MEM_freeN on every entry of the master list.
FreesOf(p) == Cardinality({i \in 1..Len(m_all_pointers) : m_all_pointers[i] = p})

\* A destructor that walks the lanes instead of the master list.
FixedArrayAllocator_dtor_lanes_only ==
    [heap |-> [p \in Pointers |->
                  IF \E S \in 1..Len(m_pointer_stacks) :
                        \E i \in 1..Len(m_pointer_stacks[S]) : m_pointer_stacks[S][i] = p
                  THEN [heap[p] EXCEPT !.state = "freed", !.frees = @ + 1]
                  ELSE heap[p]],
     null_frees |-> null_frees]

FixedArrayAllocator_dtor ==
    [heap |-> [p \in Pointers |->
                  IF FreesOf(p) > 0
                  THEN [heap[p] EXCEPT !.state = "freed", !.frees = @ + FreesOf(p)]
                  ELSE heap[p]],
     null_frees |-> null_frees + FreesOf(nullptr)]

(* --------------------------- ScopedAllocation -------------------------- *)
\* An object that does not exist yet.  Besides the members m_ptr and
\* m_element_size a handle carries its history: "scoped" (the result of
\* allocate_array_scoped, never part of a move), "moved_to" (move-constructed),
\* "moved_from" (the source of a move), "reassigned" (the target of a move
\* assignment).
NoHandleRecord ==
    [state |-> "unborn", owner |-> 1, m_ptr |-> nullptr, m_element_size |-> 1,
     history |-> "scoped"]

\* ScopedAllocation(allocator, ptr, element_size)
ScopedAllocation_ctor(ptr, element_size) ==
    [m_ptr |-> ptr, m_element_size |-> element_size]

\* A move constructor that forgets `other.m_ptr = nullptr`.
ScopedAllocation_move_keeps_source(other) ==
    [m_ptr |-> other.m_ptr, m_element_size |-> other.m_element_size,
     other_m_ptr |-> other.m_ptr]

\* ScopedAllocation(ScopedAllocation &&other): the members of the new object
\* and the pointer left in `other`.
ScopedAllocation_move(other) ==
    [m_ptr |-> other.m_ptr, m_element_size |-> other.m_element_size,
     other_m_ptr |-> nullptr]

\* ~ScopedAllocation(): whether it calls deallocate_array.
ScopedAllocation_dtor_returns(self) == self.m_ptr # nullptr

\* A destructor that returns nothing.
ScopedAllocation_dtor_leaks(stacks, self) == stacks

\* ~ScopedAllocation(): the lanes afterwards.
ScopedAllocation_dtor(stacks, self) ==
    IF ScopedAllocation_dtor_returns(self)
    THEN deallocate_array(stacks, self.m_ptr, self.m_element_size)
    ELSE stacks

(* ------------------------------ actions -------------------------------- *)
Returned(ptr, raised) == [ret |-> {ptr}, raised |-> raised]
Void == [ret |-> {}, raised |-> "none"]

\* `seq` without the latest occurrence of `e`.
RemoveLast(seq, e) ==
    LET at == {i \in 1..Len(seq) : seq[i] = e}
    IN IF at = {} THEN seq
       ELSE LET k == CHOOSE i \in at : \A j \in at : j <= i
            IN SubSeq(seq, 1, k - 1) \o SubSeq(seq, k + 1, Len(seq))

HeapAfter(r) ==
    IF r.fresh /\ r.ret # nullptr
    THEN [heap EXCEPT ![r.ret] = [state |-> "live", len |-> r.len, frees |-> 0]]
    ELSE heap

HistoryAfterAllocate(r, S) ==
    IF r.fresh THEN free_history ELSE RemoveLast(free_history, <<r.ret, S>>)

\* No call with element_size 0 has been made.
NoZeroSizeCall ==
    [outcome |-> "none", index |-> uint(0, 0), appended |-> uint(0, 0), lane |-> <<>>,
     registered |-> <<>>]

\* No buffer has gone through a typed form.
NoTypedCalls == [got |-> {}, freed |-> {}]

\* A thread that is not inside allocate_array.
Outside == [pc |-> "outside", element_size |-> 1, ptr |-> nullptr]

\* No thread is inside allocate_array, none has been inside together with
\* another, and no pop() has found its lane empty.
NoUnlockedCalls ==
    [threads |-> [t \in Threads |-> Outside], overlapped |-> FALSE, popped_empty |-> FALSE]

Init ==
    /\ \E n \in ArrayLengths :
         /\ requested_length = n
         /\ lifecycle = FixedArrayAllocator_ctor(n).lifecycle
         /\ m_array_length = FixedArrayAllocator_ctor(n).m_array_length
         /\ result = [ret |-> {}, raised |-> FixedArrayAllocator_ctor(n).raised]
    /\ m_all_pointers = <<>>
    /\ m_pointer_stacks = <<>>
    /\ heap = [p \in Pointers |->
                  [state |-> "unused", len |-> NoRequest, frees |-> 0]]
    /\ null_frees = 0
    /\ held = [t \in Threads |-> {}]
    /\ handles = [h \in Handles |-> NoHandleRecord]
    /\ free_history = <<>>
    /\ dangling_use = FALSE
    /\ zero_size_call = NoZeroSizeCall
    /\ typed = NoTypedCalls
    /\ racy = NoUnlockedCalls

\* Thread t calls allocate_array(S) and keeps the raw pointer it is given.
Allocate(t, S) ==
    /\ lifecycle = "alive"
    /\ \E r \in allocate_array(S) :
         /\ m_pointer_stacks' = r.stacks
         /\ m_all_pointers' = r.all_pointers
         /\ heap' = HeapAfter(r)
         /\ held' = IF r.ret # nullptr /\ r.raised = "none"
                    THEN [held EXCEPT ![t] = @ \cup {<<r.ret, S>>}]
                    ELSE held
         /\ free_history' = HistoryAfterAllocate(r, S)
         /\ result' = Returned(r.ret, r.raised)
    /\ UNCHANGED aux
    /\ UNCHANGED <<requested_length, lifecycle, m_array_length, null_frees, handles, dangling_use>>

\* Thread t returns a raw pointer it holds, with the size it was allocated with.
Deallocate(t, p, S) ==
    /\ lifecycle = "alive"
    /\ <<p, S>> \in held[t]
    /\ m_pointer_stacks' = deallocate_array(m_pointer_stacks, p, S)
    /\ held' = [held EXCEPT ![t] = @ \ {<<p, S>>}]
    /\ free_history' = Append(free_history, <<p, S>>)
    /\ result' = Void
    /\ UNCHANGED aux
    /\ UNCHANGED <<requested_length, lifecycle, m_array_length, m_all_pointers, heap, null_frees,
                   handles, dangling_use>>

\* Objects are numbered in the order in which they come to exist.
Unborn == {h \in Handles : handles[h].state = "unborn"}

NewHandle == CHOOSE h \in Unborn : \A g \in Unborn : h <= g

\* Thread t calls allocate_array_scoped(S); the result is object h.
ScopedAllocate(t, S, h) ==
    /\ lifecycle = "alive"
    /\ Unborn # {}
    /\ h = NewHandle
    /\ \E r \in allocate_array(S) :
         /\ m_pointer_stacks' = r.stacks
         /\ m_all_pointers' = r.all_pointers
         /\ heap' = HeapAfter(r)
         /\ free_history' = HistoryAfterAllocate(r, S)
         /\ handles' = IF r.raised = "none"
                       THEN [handles EXCEPT ![h] =
                               [NoHandleRecord EXCEPT !.state = "live", !.owner = t,
                                  !.m_ptr = ScopedAllocation_ctor(r.ret, S).m_ptr,
                                  !.m_element_size =
                                      ScopedAllocation_ctor(r.ret, S).m_element_size]]
                       ELSE handles
         /\ result' = Returned(r.ret, r.raised)
    /\ UNCHANGED aux
    /\ UNCHANGED <<requested_length, lifecycle, m_array_length, null_frees, held, dangling_use>>

\* Object dst is move-constructed from the live object src.
MoveConstruct(src, dst) ==
    /\ handles[src].state = "live"
    /\ Unborn # {}
    /\ dst = NewHandle
    /\ LET m == ScopedAllocation_move(handles[src])
       IN handles' = [handles EXCEPT
              ![dst] = [NoHandleRecord EXCEPT !.state = "live",
                           !.owner = handles[src].owner,
                           !.m_ptr = m.m_ptr, !.m_element_size = m.m_element_size,
                           !.history = "moved_to"],
              ![src] = [@ EXCEPT !.m_ptr = m.other_m_ptr, !.history = "moved_from"]]
    /\ result' = Void
    /\ UNCHANGED aux
    /\ UNCHANGED <<requested_length, lifecycle, m_array_length, m_all_pointers, m_pointer_stacks, heap,
                   null_frees, held, free_history, dangling_use>>

\* The lanes a handle destructor can leave.  On a live allocator this is what
\* ~ScopedAllocation() does; on a destroyed one the call runs on an object
\* whose lifetime has ended, and may or may not take effect.
LanesAfterDtor(self) ==
    IF lifecycle = "alive" \/ ~ScopedAllocation_dtor_returns(self)
    THEN {ScopedAllocation_dtor(m_pointer_stacks, self)}
    ELSE {ScopedAllocation_dtor(m_pointer_stacks, self), m_pointer_stacks}

HistoryAfterDtor(self) ==
    IF lifecycle = "alive" /\ ScopedAllocation_dtor_returns(self)
    THEN Append(free_history, <<self.m_ptr, self.m_element_size>>)
    ELSE free_history

DanglingAfterDtor(self) ==
    dangling_use \/ (lifecycle # "alive" /\ ScopedAllocation_dtor_returns(self))

\* What is left of an object whose lifetime has ended: its history.
Dead(self) ==
    [NoHandleRecord EXCEPT !.state = "dead", !.history = self.history]

\* The scope holding object h is left along `path`: ~ScopedAllocation() runs.
Destruct(h, path) ==
    /\ handles[h].state = "live"
    /\ path \in ExitPaths
    /\ \E lanes \in LanesAfterDtor(handles[h]) : m_pointer_stacks' = lanes
    /\ free_history' = HistoryAfterDtor(handles[h])
    /\ dangling_use' = DanglingAfterDtor(handles[h])
    /\ handles' = [handles EXCEPT ![h] = Dead(handles[h])]
    /\ result' = Void
    /\ UNCHANGED aux
    /\ UNCHANGED <<requested_length, lifecycle, m_array_length, m_all_pointers, heap, null_frees, held>>

\* A move assignment that constructs over a without destroying it first.
MoveAssign_without_dtor(a, b) ==
    /\ handles[a].state = "live"
    /\ handles[b].state = "live"
    /\ handles[a].owner = handles[b].owner
    /\ LET m == ScopedAllocation_move(handles[b])
           rebuilt == [handles EXCEPT ![a].m_ptr = m.m_ptr,
                                      ![a].m_element_size = m.m_element_size,
                                      ![a].history = "reassigned"]
       IN handles' = [rebuilt EXCEPT ![b].m_ptr = m.other_m_ptr,
                                     ![b].history = "moved_from"]
    /\ result' = Void
    /\ UNCHANGED aux
    /\ UNCHANGED <<requested_length, lifecycle, m_array_length, m_all_pointers, m_pointer_stacks,
                   heap, null_frees, held, free_history, dangling_use>>

\* a = std::move(b): a's destructor, then a is move-constructed in place from
\* b.  With a and b the same object the members are read from and written to
\* the same storage, in the order of the statements.
MoveAssign(a, b) ==
    /\ handles[a].state = "live"
    /\ handles[b].state = "live"
    /\ handles[a].owner = handles[b].owner
    /\ \E lanes \in LanesAfterDtor(handles[a]) : m_pointer_stacks' = lanes
    /\ free_history' = HistoryAfterDtor(handles[a])
    /\ dangling_use' = DanglingAfterDtor(handles[a])
    /\ LET m == ScopedAllocation_move(handles[b])
           rebuilt == [handles EXCEPT ![a].m_ptr = m.m_ptr,
                                      ![a].m_element_size = m.m_element_size,
                                      ![a].history = "reassigned"]
       IN handles' = [rebuilt EXCEPT ![b].m_ptr = m.other_m_ptr,
                                     ![b].history = "moved_from"]
    /\ result' = Void
    /\ UNCHANGED aux
    /\ UNCHANGED <<requested_length, lifecycle, m_array_length, m_all_pointers, heap, null_frees, held>>

\* The allocator is destroyed.
Teardown ==
    /\ lifecycle = "alive"
    /\ lifecycle' = "destroyed"
    /\ heap' = FixedArrayAllocator_dtor.heap
    /\ null_frees' = FixedArrayAllocator_dtor.null_frees
    /\ result' = Void
    /\ UNCHANGED aux
    /\ UNCHANGED <<requested_length, m_array_length, m_all_pointers, m_pointer_stacks,
                   held, handles, free_history, dangling_use>>

(* ------------------- calls with element_size = 0 ---------------------- *)
\* BLI_assert(condition): a failed assertion aborts in a build that has
\* assertions and is no statement at all in a build that has none.
BLI_assert(condition) == IF condition THEN {"continue"} ELSE {"abort", "continue"}

\* stack_for_element_size at the full width of uint, for a lane vector of
\* `size` lanes: the index it computes, the n it hands to append_n_times, the
\* size() of the vector afterwards, and whether the index is inside it.
stack_for_element_size_uint(size, element_size) ==
    LET index == uint_sub(element_size, uint(0, 1))
        appended == IF uint_ge(index, size)
                    THEN uint_add(uint_sub(index, size), uint(0, 1))
                    ELSE uint(0, 0)
        size_after == uint_add(size, appended)
    IN [index |-> index, appended |-> appended, size_after |-> size_after,
        in_bounds |-> ~uint_ge(index, size_after)]

\* What stack_for_element_size(0) does: "stopped" by the assertion, or the
\* lane reference it returns is "out_of_bounds": index 2^32 - 1 is one a
\* vector with a uint size never has.
ZeroSizeOutcomes ==
    LET w == stack_for_element_size_uint(uint(0, Len(m_pointer_stacks)), uint(0, 0))
    IN {IF o = "abort" \/ w.in_bounds
        THEN [NoZeroSizeCall EXCEPT !.outcome = "stopped"]
        ELSE [NoZeroSizeCall EXCEPT !.outcome = "out_of_bounds",
                                    !.index = w.index, !.appended = w.appended]
        : o \in BLI_assert(FALSE)}

\* What allocate_array(0) goes on to do with the lane reference.  A reference
\* past the end of the vector is any memory: the process dies, or the memory
\* reads as an empty lane and a block of m_array_length * 0 bytes is
\* registered and returned, or it reads as a lane holding some pointer.
AllocateZeroEffects(z) ==
    IF z.outcome = "stopped"
    THEN {[lifecycle |-> "aborted", all_pointers |-> m_all_pointers, heap |-> heap,
           call |-> z, result |-> [ret |-> {}, raised |-> "ProgrammingPrecondition"]]}
    ELSE {[lifecycle |-> "crashed", all_pointers |-> m_all_pointers, heap |-> heap,
           call |-> z, result |-> Void]}
         \cup {[lifecycle |-> "corrupted",
                all_pointers |-> Append(m_all_pointers, ptr),
                heap |-> HeapAfter([fresh |-> TRUE, ret |-> ptr,
                                    len |-> uint_mul(m_array_length, 0)]),
                call |-> [z EXCEPT !.registered = <<ptr>>],
                result |-> Returned(ptr, "none")] : ptr \in MEM_mallocN_aligned}
         \cup {[lifecycle |-> "corrupted", all_pointers |-> m_all_pointers, heap |-> heap,
                call |-> z, result |-> Returned(ptr, "none")] : ptr \in Pointers}

\* Thread t calls allocate_array(0).  The instance is followed no further.
AllocateZero(t) ==
    /\ lifecycle = "alive"
    /\ \E z \in ZeroSizeOutcomes : \E e \in AllocateZeroEffects(z) :
         /\ lifecycle' = e.lifecycle
         /\ m_all_pointers' = e.all_pointers
         /\ heap' = e.heap
         /\ zero_size_call' = e.call
         /\ result' = e.result
    /\ UNCHANGED <<requested_length, m_array_length, m_pointer_stacks, null_frees, held,
                   handles, free_history, dangling_use, typed, racy>>

\* What deallocate_array(ptr, 0) goes on to do: the process dies, or ptr is
\* stored in the memory the reference names.
DeallocateZeroEffects(z, ptr) ==
    IF z.outcome = "stopped"
    THEN {[lifecycle |-> "aborted", call |-> z,
           result |-> [ret |-> {}, raised |-> "ProgrammingPrecondition"]]}
    ELSE {[lifecycle |-> "crashed", call |-> z, result |-> Void],
          [lifecycle |-> "corrupted",
           call |-> [z EXCEPT !.lane = SmallStack_push(<<>>, ptr)], result |-> Void]}

\* Thread t calls deallocate_array(p, 0) with a raw pointer it holds.
DeallocateZero(t, p) ==
    /\ lifecycle = "alive"
    /\ \E S \in ElementSizes : <<p, S>> \in held[t]
    /\ \E z \in ZeroSizeOutcomes : \E e \in DeallocateZeroEffects(z, p) :
         /\ lifecycle' = e.lifecycle
         /\ zero_size_call' = e.call
         /\ result' = e.result
    /\ UNCHANGED <<requested_length, m_array_length, m_all_pointers, m_pointer_stacks, heap,
                   null_frees, held, handles, free_history, dangling_use, typed, racy>>

\* The raw interface on its own: no handles.
NextRaw ==
    \/ \E t \in Threads, S \in ElementSizes : Allocate(t, S)
    \/ \E t \in Threads, p \in Pointers, S \in ElementSizes : Deallocate(t, p, S)
    \/ Teardown

NextZero ==
    \/ NextRaw
    \/ \E t \in Threads : AllocateZero(t)
    \/ \E t \in Threads, p \in Pointers : DeallocateZero(t, p)

SpecZero == Init /\ [][NextZero]_vars

(* --------------------------- typed forms ------------------------------- *)
\* Element types the typed forms are instantiated with, and their sizeof:
\* one type of one byte and two different types of two bytes.
Types == {"int8_t", "int16_t", "uint16_t"}

sizeof(T) == IF T = "int8_t" THEN 1 ELSE 2

\* allocate_array<T>(): the cast to T * leaves the pointer value as it is.
allocate_array_T(T) == allocate_array(sizeof(T))

\* A deallocate_array<T> that returns every array as an array of bytes.
deallocate_array_T_as_bytes(stacks, ptr, T) == deallocate_array(stacks, ptr, 1)

\* deallocate_array<T>(ptr): the lanes afterwards.
deallocate_array_T(stacks, ptr, T) == deallocate_array(stacks, ptr, sizeof(T))

\* Thread t calls allocate_array<T>() and keeps the pointer it is given.
AllocateTyped(t, T) ==
    /\ lifecycle = "alive"
    /\ \E r \in allocate_array_T(T) :
         /\ m_pointer_stacks' = r.stacks
         /\ m_all_pointers' = r.all_pointers
         /\ heap' = HeapAfter(r)
         /\ held' = IF r.ret # nullptr /\ r.raised = "none"
                    THEN [held EXCEPT ![t] = @ \cup {<<r.ret, sizeof(T)>>}]
                    ELSE held
         /\ free_history' = HistoryAfterAllocate(r, sizeof(T))
         /\ result' = Returned(r.ret, r.raised)
         /\ typed' = [typed EXCEPT !.got = @ \cup ({r.ret} \ {nullptr})]
    /\ UNCHANGED <<requested_length, lifecycle, m_array_length, null_frees, handles,
                   dangling_use, zero_size_call, racy>>

\* Thread t returns an array of T it holds through deallocate_array<T>.
DeallocateTyped(t, p, T) ==
    /\ lifecycle = "alive"
    /\ <<p, sizeof(T)>> \in held[t]
    /\ m_pointer_stacks' = deallocate_array_T(m_pointer_stacks, p, T)
    /\ held' = [held EXCEPT ![t] = @ \ {<<p, sizeof(T)>>}]
    /\ free_history' = Append(free_history, <<p, sizeof(T)>>)
    /\ result' = Void
    /\ typed' = [typed EXCEPT !.freed = @ \cup {p}]
    /\ UNCHANGED <<requested_length, lifecycle, m_array_length, m_all_pointers, heap, null_frees,
                   handles, dangling_use, zero_size_call, racy>>

NextTyped ==
    \/ NextRaw
    \/ \E t \in Threads, T \in Types : AllocateTyped(t, T)
    \/ \E t \in Threads, p \in Pointers, T \in Types : DeallocateTyped(t, p, T)

SpecTyped == Init /\ [][NextTyped]_vars

(* ------------------- callers that keep no discipline ------------------ *)
\* A pointer that no allocate_array of this instance has returned.
ForeignPointer == MaxBuffers + 1

AnyPointers == Pointers \cup {ForeignPointer}

\* Thread t calls deallocate_array(p, S) with any pointer and any size >= 1:
\* one it holds, one it does not hold, one that is resident already, one from
\* elsewhere.  Afterwards t regards p as returned.
DeallocateAny(t, p, S) ==
    /\ lifecycle = "alive"
    /\ S <= Len(m_pointer_stacks) => Len(m_pointer_stacks[S]) < MaxLaneLength
    /\ m_pointer_stacks' = deallocate_array(m_pointer_stacks, p, S)
    /\ held' = [held EXCEPT ![t] = {c \in @ : c[1] # p}]
    /\ free_history' = Append(free_history, <<p, S>>)
    /\ result' = Void
    /\ UNCHANGED aux
    /\ UNCHANGED <<requested_length, lifecycle, m_array_length, m_all_pointers, heap, null_frees,
                   handles, dangling_use>>

\* deallocate_array does not look at who calls it: one caller makes every
\* kind of call.
AnyCaller == CHOOSE t \in Threads : \A u \in Threads : t <= u

NextAny ==
    \/ \E S \in ElementSizes : Allocate(AnyCaller, S)
    \/ \E p \in AnyPointers, S \in ElementSizes : DeallocateAny(AnyCaller, p, S)
    \/ Teardown

SpecAny == Init /\ [][NextAny]_vars

(* ------------------ allocate_array without a lock ---------------------- *)
\* Threads run allocate_array on the one instance with nothing serialising
\* them.  A call is three steps: lines 40-41 (find the lane, test
\* stack.size() > 0), then line 42 (pop) or lines 44-46 (allocate, append).
\* Line 41: where the call goes after the test.
allocate_array_check(stack) == IF SmallStack_size(stack) > 0 THEN "pop" ELSE "malloc"

\* A line 42 that returns the top of the lane and leaves it there.
allocate_array_pop_keeps(stack) == [ret |-> SmallStack_top(stack), stack |-> stack]

\* Line 42 on a lane that holds something.
allocate_array_pop(stack) ==
    [ret |-> SmallStack_top(stack), stack |-> SmallStack_pop(stack)]

Inside(t) == racy.threads[t].pc \in {"pop", "malloc"}

\* Thread t enters allocate_array(S) and runs lines 40-41.
RacyCheck(t, S) ==
    /\ lifecycle = "alive"
    /\ racy.threads[t].pc = "outside"
    /\ m_pointer_stacks' = stack_for_element_size(m_pointer_stacks, S)
    /\ racy' = [racy EXCEPT
                   !.threads[t] = [pc |-> allocate_array_check(m_pointer_stacks'[S]),
                                   element_size |-> S, ptr |-> nullptr],
                   !.overlapped = @ \/ \E u \in Threads \ {t} : Inside(u)]
    /\ UNCHANGED <<requested_length, lifecycle, m_array_length, m_all_pointers, heap, null_frees,
                   held, handles, free_history, dangling_use, result, zero_size_call, typed>>

\* Thread t runs line 42.  pop() on a lane that another thread has emptied
\* in the meantime returns whatever the memory under the stack holds; the
\* thread is followed no further.
RacyPop(t) ==
    LET S == racy.threads[t].element_size
        stack == m_pointer_stacks[S]
    IN /\ racy.threads[t].pc = "pop"
       /\ IF SmallStack_size(stack) > 0
          THEN /\ m_pointer_stacks' =
                    [m_pointer_stacks EXCEPT ![S] = allocate_array_pop(stack).stack]
               /\ held' = [held EXCEPT ![t] = @ \cup {<<allocate_array_pop(stack).ret, S>>}]
               /\ free_history' =
                    RemoveLast(free_history, <<allocate_array_pop(stack).ret, S>>)
               /\ result' = Returned(allocate_array_pop(stack).ret, "none")
               /\ racy' = [racy EXCEPT !.threads[t] = Outside]
          ELSE /\ \E garbage \in Pointers :
                    /\ racy' = [racy EXCEPT
                                   !.threads[t] = [pc |-> "undefined", element_size |-> S,
                                                   ptr |-> garbage],
                                   !.popped_empty = TRUE]
                    /\ result' = Returned(garbage, "none")
               /\ UNCHANGED <<m_pointer_stacks, held, free_history>>
       /\ UNCHANGED <<requested_length, lifecycle, m_array_length, m_all_pointers, heap,
                      null_frees, handles, dangling_use, zero_size_call, typed>>

\* Thread t runs lines 44-46.
RacyMalloc(t) ==
    LET S == racy.threads[t].element_size
    IN /\ racy.threads[t].pc = "malloc"
       /\ \E ptr \in MEM_mallocN_aligned :
            /\ m_all_pointers' = Append(m_all_pointers, ptr)
            /\ heap' = HeapAfter([fresh |-> TRUE, ret |-> ptr,
                                  len |-> uint_mul(m_array_length, S)])
            /\ held' = IF ptr # nullptr
                       THEN [held EXCEPT ![t] = @ \cup {<<ptr, S>>}]
                       ELSE held
            /\ result' = Returned(ptr, "none")
       /\ racy' = [racy EXCEPT !.threads[t] = Outside]
       /\ UNCHANGED <<requested_length, lifecycle, m_array_length, m_pointer_stacks,
                      null_frees, handles, free_history, dangling_use, zero_size_call, typed>>

NextRacy ==
    \/ \E t \in Threads, S \in ElementSizes : RacyCheck(t, S)
    \/ \E t \in Threads : RacyPop(t)
    \/ \E t \in Threads : RacyMalloc(t)
    \/ \E t \in Threads, p \in Pointers, S \in ElementSizes :
          racy.threads[t].pc = "outside" /\ Deallocate(t, p, S)

SpecRacy == Init /\ [][NextRacy]_vars

Next ==
    \/ \E t \in Threads, S \in ElementSizes : Allocate(t, S)
    \/ \E t \in Threads, p \in Pointers, S \in ElementSizes : Deallocate(t, p, S)
    \/ \E t \in Threads, S \in ElementSizes, h \in Handles : ScopedAllocate(t, S, h)
    \/ \E src \in Handles, dst \in Handles : MoveConstruct(src, dst)
    \/ \E a \in Handles, b \in Handles : MoveAssign(a, b)
    \/ \E h \in Handles, path \in ExitPaths : Destruct(h, path)
    \/ Teardown

Spec == Init /\ [][Next]_vars

(* --------------------------- state functions --------------------------- *)
\* The lane for element size S; a lane not created yet holds nothing.
LaneOf(stacks, S) == IF S <= Len(stacks) THEN stacks[S] ELSE <<>>

Occurrences(seq, p) == Cardinality({i \in 1..Len(seq) : seq[i] = p})

\* How often p is resident in lane S, and in all lanes together.
ResidentIn(stacks, p, S) == Occurrences(LaneOf(stacks, S), p)

LanesHolding(stacks, p) == {S \in 1..Len(stacks) : ResidentIn(stacks, p, S) > 0}

Resident(stacks, p) ==
    Cardinality(UNION {{<<S, i>> : i \in {j \in 1..Len(stacks[S]) : stacks[S][j] = p}}
                       : S \in 1..Len(stacks)})

\* The checkouts of p: raw ones (thread, size) and live handles.
RawCheckouts(p) == {<<t, S>> \in Threads \X ElementSizes : <<p, S>> \in held[t]}

HandleCheckouts(p) == {h \in Handles : handles[h].state = "live" /\ handles[h].m_ptr = p}

Checkouts(p) == Cardinality(RawCheckouts(p)) + Cardinality(HandleCheckouts(p))

\* The threads p is checked out to.
Holders(p) ==
    {t \in Threads : \E S \in ElementSizes : <<p, S>> \in held[t]}
    \cup {handles[h].owner : h \in HandleCheckouts(p)}

MasterList == {m_all_pointers[i] : i \in 1..Len(m_all_pointers)}

Buffers == MasterList \ {nullptr}

(* ------------------------------- claims -------------------------------- *)
\* C1: while the allocator is alive, every buffer of the master list is
\* either checked out exactly once (one raw checkout or one live handle) and
\* resident in no lane, or resident exactly once in exactly one lane and
\* checked out to nobody.
C1_CheckedOutXorResident ==
    lifecycle = "alive" =>
        \A p \in Buffers :
            \/ Checkouts(p) = 1 /\ Resident(m_pointer_stacks, p) = 0
            \/ /\ Checkouts(p) = 0
               /\ Resident(m_pointer_stacks, p) = 1
               /\ Cardinality(LanesHolding(m_pointer_stacks, p)) = 1

\* C1 witness: two buffers exist; one is back in a lane, the other is held by
\* a handle that received it through a move.
C1_Witness ==
    /\ lifecycle = "alive"
    /\ \E p \in Buffers, q \in Buffers :
         /\ p # q
         /\ Resident(m_pointer_stacks, p) = 1
         /\ \E h \in HandleCheckouts(q) : handles[h].history = "moved_to"

\* A call of allocate_array(S) by thread t, raw or through allocate_array_scoped.
AllocateCall(t, S) == Allocate(t, S) \/ \E h \in Handles : ScopedAllocate(t, S, h)

\* The buffer returned to lane S latest among those still resident.
LatestFreed(S) ==
    LET at == {i \in 1..Len(free_history) : free_history[i][2] = S}
        k == CHOOSE i \in at : \A j \in at : j <= i
    IN free_history[k][1]

\* C2: an allocate_array(S) that finds lane S non-empty returns the buffer
\* returned to lane S latest among those not handed out since, takes exactly
\* that buffer out of the lane, and leaves the master list as it is.
C2_ReuseStep ==
    \A t \in Threads, S \in ElementSizes :
        (AllocateCall(t, S) /\ LaneOf(m_pointer_stacks, S) # <<>>) =>
            /\ result' = Returned(LatestFreed(S), "none")
            /\ ResidentIn(m_pointer_stacks, LatestFreed(S), S) = 1
            /\ ResidentIn(m_pointer_stacks', LatestFreed(S), S) = 0
            /\ Len(LaneOf(m_pointer_stacks', S)) = Len(LaneOf(m_pointer_stacks, S)) - 1
            /\ m_all_pointers' = m_all_pointers
            /\ heap' = heap

\* C2: every step of every behaviour is such a reuse step (LIFO reuse).
C2_LifoReuse == [][C2_ReuseStep]_vars

\* C2 witness: two buffers of one size were returned, the younger after the
\* older; the latest call handed the younger out again and the older is
\* still resident, with no third buffer registered.
C2_Witness ==
    /\ lifecycle = "alive"
    /\ m_all_pointers = <<1, 2>>
    /\ \E S \in ElementSizes :
         /\ LaneOf(m_pointer_stacks, S) = <<1>>
         /\ \E t \in Threads : <<2, S>> \in held[t]
         /\ result = Returned(2, "none")
         /\ free_history = <<<<1, S>>>>

\* C3: allocate_array(S2) never returns a buffer that is resident under
\* another element size; when lane S2 is empty and the heap supplies a block,
\* the returned buffer is one the master list did not hold, whatever the other
\* lanes hold; and the call leaves every lane other than S2 as it was.
C3_IsolationStep ==
    \A t \in Threads, S2 \in ElementSizes :
        AllocateCall(t, S2) =>
            /\ \A S1 \in ElementSizes \ {S2} :
                  /\ \A p \in result'.ret : p # nullptr => ResidentIn(m_pointer_stacks, p, S1) = 0
                  /\ LaneOf(m_pointer_stacks', S1) = LaneOf(m_pointer_stacks, S1)
            /\ LaneOf(m_pointer_stacks, S2) = <<>> =>
                  \A p \in result'.ret : p # nullptr =>
                      /\ p \notin MasterList
                      /\ heap[p].state = "unused"
                      /\ m_all_pointers' = Append(m_all_pointers, p)

\* C3: every step of every behaviour keeps the lanes isolated.
C3_LaneIsolation == [][C3_IsolationStep]_vars

\* C3 witness: a buffer returned under size 1 is resident while the latest
\* call, for size 2, was given a new buffer.
C3_Witness ==
    /\ lifecycle = "alive"
    /\ m_all_pointers = <<1, 2>>
    /\ LaneOf(m_pointer_stacks, 1) = <<1>>
    /\ LaneOf(m_pointer_stacks, 2) = <<>>
    /\ result = Returned(2, "none")
    /\ \E t \in Threads : held[t] = {<<2, 2>>}

\* C4: once the allocator is destroyed, every block the heap ever supplied
\* has been passed to MEM_freeN exactly once (and no other block has).
C4_TeardownFreesEachOnce ==
    lifecycle = "destroyed" =>
        \A p \in Pointers :
            IF p \in Buffers
            THEN heap[p].state = "freed" /\ heap[p].frees = 1
            ELSE heap[p].state = "unused" /\ heap[p].frees = 0

\* C4 witness: at teardown one buffer was resident in a lane, another was
\* checked out, and both were reused or allocated across two element sizes.
C4_Witness ==
    /\ lifecycle = "destroyed"
    /\ ~dangling_use
    /\ \E p \in Buffers, q \in Buffers :
         /\ Resident(m_pointer_stacks, p) = 1
         /\ Checkouts(q) = 1
         /\ heap[p].len # heap[q].len
         /\ heap[p].frees = 1 /\ heap[q].frees = 1

\* C5: every buffer a caller has been given for element size S has capacity
\* exactly N x S bytes, the exact product of the configured length and S.
C5_CapacityIsExactProduct ==
    /\ \A t \in Threads, p \in Pointers, S \in ElementSizes :
          <<p, S>> \in held[t] => heap[p].len = MathProduct(array_size, S)
    /\ \A h \in Handles :
          (handles[h].state = "live" /\ handles[h].m_ptr # nullptr) =>
              heap[handles[h].m_ptr].len = MathProduct(array_size, handles[h].m_element_size)

\* C6: no call returns the null pointer as its buffer: a call that gives its
\* caller no usable buffer has signalled OutOfMemory.
C6_NullIsNeverReturned ==
    nullptr \in result.ret => result.raised = "OutOfMemory"

\* C7: when the scope of a handle that allocate_array_scoped(S) returned, and
\* that took part in no move, is left along any exit path while the allocator
\* is alive, its buffer, resident nowhere before, becomes the top of lane S and
\* is resident exactly once; no other lane changes.
C7_ScopeExitStep ==
    \A h \in Handles, path \in ExitPaths :
        (/\ Destruct(h, path)
         /\ lifecycle = "alive"
         /\ handles[h].history = "scoped"
         /\ handles[h].m_ptr # nullptr) =>
            LET p == handles[h].m_ptr
                S == handles[h].m_element_size
            IN /\ heap[p].len = uint_mul(array_size, S)
               /\ Resident(m_pointer_stacks, p) = 0
               /\ m_pointer_stacks'[S] = Append(LaneOf(m_pointer_stacks, S), p)
               /\ Resident(m_pointer_stacks', p) = 1
               /\ \A S1 \in ElementSizes \ {S} :
                     LaneOf(m_pointer_stacks', S1) = LaneOf(m_pointer_stacks, S1)
               /\ handles'[h].state = "dead"

\* C7: every scope exit of a never-moved scoped checkout returns its buffer
\* to the top of its lane, exactly once.
C7_ScopedReturn == [][C7_ScopeExitStep]_vars

\* C7 witness: the only buffer ever allocated went out through
\* allocate_array_scoped(2), its handle was never moved and is gone, and the
\* buffer lies in lane 2.
C7_Witness ==
    /\ lifecycle = "alive"
    /\ m_all_pointers = <<1>>
    /\ m_pointer_stacks = <<<<>>, <<1>>>>
    /\ free_history = <<<<1, 2>>>>
    /\ \E h \in Handles :
         /\ handles[h].state = "dead" /\ handles[h].history = "scoped"
         /\ \A g \in Handles \ {h} : handles[g].state = "unborn"
    /\ \A t \in Threads : held[t] = {}

\* A moved pair whose two objects are both gone.
PairGone ==
    \E src \in Handles, dst \in Handles :
        /\ handles[src].state = "dead" /\ handles[src].history = "moved_from"
        /\ handles[dst].state = "dead" /\ handles[dst].history = "moved_to"

\* C8: a move construction gives the new handle the buffer and element size
\* of the source and leaves the source empty, touching no lane; the destructor
\* of an empty handle changes no lane, that of a handle holding a buffer
\* pushes it once; no buffer is ever in two live handles; and once both
\* objects of a moved pair are gone every buffer is accounted for once.
C8_MoveStep ==
    /\ \A src \in Handles, dst \in Handles :
          MoveConstruct(src, dst) =>
              /\ handles'[dst].state = "live"
              /\ handles'[dst].m_ptr = handles[src].m_ptr
              /\ handles'[dst].m_element_size = handles[src].m_element_size
              /\ handles'[src].state = "live"
              /\ handles'[src].m_ptr = nullptr
              /\ m_pointer_stacks' = m_pointer_stacks
    /\ \A h \in Handles, path \in ExitPaths :
          (Destruct(h, path) /\ lifecycle = "alive") =>
              IF handles[h].m_ptr = nullptr
              THEN m_pointer_stacks' = m_pointer_stacks
              ELSE /\ Resident(m_pointer_stacks, handles[h].m_ptr) = 0
                   /\ Resident(m_pointer_stacks', handles[h].m_ptr) = 1
                   /\ ResidentIn(m_pointer_stacks', handles[h].m_ptr,
                                 handles[h].m_element_size) = 1

C8_MoveInvariant ==
    /\ \A p \in Pointers : Cardinality(HandleCheckouts(p)) <= 1
    /\ (lifecycle = "alive" /\ PairGone) =>
          \A p \in Buffers : Checkouts(p) + Resident(m_pointer_stacks, p) = 1

\* C8: move construction transfers the obligation to return the buffer; over
\* the destruction of both objects the buffer is pushed exactly once.
C8_MoveTransfersObligation == [][C8_MoveStep]_vars /\ []C8_MoveInvariant

\* C8 witness: a handle holding the only buffer was moved into a second one,
\* both are gone, and the buffer is resident once, in the lane of its size.
C8_Witness ==
    /\ lifecycle = "alive"
    /\ PairGone
    /\ m_all_pointers = <<1>>
    /\ m_pointer_stacks = <<<<>>, <<1>>>>
    /\ \A t \in Threads : held[t] = {}

\* C10 as stated: a zero array length never yields a live allocator; the
\* construction has failed with InvalidConfiguration.
C10_ZeroLengthRejected ==
    requested_length = uint(0, 0) =>
        lifecycle = "invalid" /\ result.raised = "InvalidConfiguration"

\* C10 amended: construction never fails; whatever the requested length,
\* zero included, the instance exists, array_size() is that length and no
\* call reports InvalidConfiguration.
C10_ConstructionAlwaysSucceeds ==
    /\ lifecycle \in {"alive", "destroyed"}
    /\ array_size = requested_length
    /\ result.raised # "InvalidConfiguration"

\* C10 witness: an allocator constructed with length 0 is in use: it has
\* handed out a buffer and taken one back.
C10_Witness ==
    /\ requested_length = uint(0, 0)
    /\ lifecycle = "alive"
    /\ \E p \in Buffers, q \in Buffers : Checkouts(p) = 1 /\ Resident(m_pointer_stacks, q) = 1

\* C9: with every call atomic, no buffer is checked out to two threads at
\* once and no buffer occurs twice in the lanes.
C9_NoSharedCheckoutNoDuplicate ==
    \A p \in Pointers :
        /\ Cardinality(Holders(p)) <= 1
        /\ Resident(m_pointer_stacks, p) <= 1

\* C9 witness: two threads hold one buffer each, and the latest call handed
\* out the older of the two buffers, i.e. one that had been returned to a lane.
C9_Witness ==
    /\ lifecycle = "alive"
    /\ \E t \in Threads, u \in Threads, p \in Buffers, q \in Buffers :
         /\ t # u /\ p # q
         /\ Holders(p) = {t}
         /\ Holders(q) = {u}
         /\ result.ret = {p}
         /\ p < q

\* C11: a call of allocate_array or deallocate_array with element size 0 is
\* stopped by the element_size > 0 check before anything changes: the lane
\* vector is not indexed or grown, no buffer is popped or pushed, nothing is
\* added to the master list, and no buffer is returned.
C11_ZeroSizeStopped ==
    zero_size_call.outcome # "none" =>
        /\ zero_size_call.outcome = "stopped"
        /\ zero_size_call.appended = uint(0, 0)
        /\ zero_size_call.lane = <<>>
        /\ zero_size_call.registered = <<>>
        /\ result.ret = {}

\* C12: the typed forms are the byte-size forms called with sizeof(T), on the
\* one pool.  A step of allocate_array<T>() returns what allocate_array(sizeof(T))
\* returns in the same state and leaves the lanes, the master list and the
\* heap as that call leaves them; a step of deallocate_array<T>(p) leaves the
\* lanes as deallocate_array(p, sizeof(T)) leaves them and nothing else
\* changed, so that p is what the next allocate_array of that byte size, and
\* the next allocate_array<T2>() of every type T2 of equal size, returns.
C12_TypedStep ==
    \A t \in Threads, T \in Types :
        /\ AllocateTyped(t, T) =>
              \E r \in allocate_array(sizeof(T)) :
                  /\ result' = Returned(r.ret, r.raised)
                  /\ m_pointer_stacks' = r.stacks
                  /\ m_all_pointers' = r.all_pointers
                  /\ heap' = HeapAfter(r)
                  /\ r.ret # nullptr => <<r.ret, sizeof(T)>> \in held'[t]
        /\ \A p \in Pointers :
              DeallocateTyped(t, p, T) =>
                  /\ m_pointer_stacks' = deallocate_array(m_pointer_stacks, p, sizeof(T))
                  /\ m_all_pointers' = m_all_pointers
                  /\ heap' = heap
                  /\ \A r \in allocate_array(sizeof(T))' : r.ret = p /\ ~r.fresh
                  /\ \A T2 \in Types :
                        sizeof(T2) = sizeof(T) =>
                            \A r \in allocate_array_T(T2)' : r.ret = p /\ ~r.fresh

C12_TypedFormsAreUntypedForms == [][C12_TypedStep]_vars

\* A buffer that was returned through deallocate_array<T>, has never been
\* handed out by allocate_array<T>, and is the result of the latest call:
\* allocate_array(sizeof(T)) reused it.
C12_Witness ==
    /\ lifecycle = "alive"
    /\ \E p \in typed.freed \ typed.got :
          /\ result = Returned(p, "none")
          /\ \E t \in Threads, S \in ElementSizes : <<p, S>> \in held[t]
          /\ Resident(m_pointer_stacks, p) = 0

\* C13: deallocate_array(p, S) with S >= 1 validates nothing and has one
\* effect: p is pushed on top of lane S, the lane vector growing up to S if
\* it was shorter.  Every other lane keeps its contents and order, and the
\* master list, the array length, the heap and the life of the allocator are
\* as before, whether p is held by the caller, is resident already, was
\* allocated under another size or is no buffer of this instance.
C13_DeallocateStep ==
    \A t \in Threads, p \in AnyPointers, S \in ElementSizes :
        DeallocateAny(t, p, S) =>
            /\ LaneOf(m_pointer_stacks', S) = Append(LaneOf(m_pointer_stacks, S), p)
            /\ Len(m_pointer_stacks') =
                  IF S > Len(m_pointer_stacks) THEN S ELSE Len(m_pointer_stacks)
            /\ \A S2 \in 1..Len(m_pointer_stacks') :
                  S2 # S => m_pointer_stacks'[S2] = LaneOf(m_pointer_stacks, S2)
            /\ m_all_pointers' = m_all_pointers
            /\ m_array_length' = m_array_length
            /\ heap' = heap
            /\ null_frees' = null_frees
            /\ lifecycle' = lifecycle

C13_DeallocateOnlyPushes == [][C13_DeallocateStep]_vars

\* The foreign pointer is resident, and a buffer of this instance is
\* resident in two lanes at once, one of them not the lane of its size.
C13_Witness ==
    /\ lifecycle = "alive"
    /\ Resident(m_pointer_stacks, ForeignPointer) > 0
    /\ \E p \in Buffers : Cardinality(LanesHolding(m_pointer_stacks, p)) = 2
    /\ result = Void

\* C14: the lane for element size S is the one at index S - 1 of the lane
\* vector (position S here).  A call that passes S leaves max(lanes before, S)
\* lanes, so that the number of lanes is the largest size passed so far (0
\* at the start) and never decreases; the lanes it creates, other than what
\* is pushed onto lane S itself, are empty, and every lane that existed keeps
\* its contents and order unless it is lane S.  A call that passes no size
\* leaves the lanes as they are.
C14_Passes(S) ==
    /\ Len(m_pointer_stacks') =
          IF S > Len(m_pointer_stacks) THEN S ELSE Len(m_pointer_stacks)
    /\ \A S2 \in 1..Len(m_pointer_stacks') :
          S2 # S => m_pointer_stacks'[S2] = LaneOf(m_pointer_stacks, S2)
    /\ S > Len(m_pointer_stacks) => Len(m_pointer_stacks'[S]) <= 1

C14_LaneStep ==
    /\ Len(m_pointer_stacks') >= Len(m_pointer_stacks)
    /\ lifecycle = "alive" =>
          /\ \A t \in Threads, S \in ElementSizes :
                /\ Allocate(t, S) => C14_Passes(S)
                /\ (\E h \in Handles : ScopedAllocate(t, S, h)) => C14_Passes(S)
                /\ \A p \in Pointers :
                      Deallocate(t, p, S) =>
                          /\ C14_Passes(S)
                          /\ m_pointer_stacks'[S] = Append(LaneOf(m_pointer_stacks, S), p)
          /\ \A h \in Handles :
                (\E path \in ExitPaths : Destruct(h, path)) \/ (\E b \in Handles : MoveAssign(h, b)) =>
                    IF handles[h].m_ptr # nullptr
                    THEN /\ C14_Passes(handles[h].m_element_size)
                         /\ m_pointer_stacks'[handles[h].m_element_size] =
                               Append(LaneOf(m_pointer_stacks, handles[h].m_element_size),
                                      handles[h].m_ptr)
                    ELSE m_pointer_stacks' = m_pointer_stacks
          /\ (\E src \in Handles, dst \in Handles : MoveConstruct(src, dst)) \/ Teardown =>
                m_pointer_stacks' = m_pointer_stacks

\* Every size a checkout or a resident buffer is known by has a lane.
C14_SizesHaveLanes ==
    /\ \A t \in Threads : \A c \in held[t] : c[2] <= Len(m_pointer_stacks)
    /\ \A h \in Handles :
          handles[h].state = "live" /\ handles[h].m_ptr # nullptr =>
              handles[h].m_element_size <= Len(m_pointer_stacks)
    /\ \A i \in 1..Len(free_history) : free_history[i][2] <= Len(m_pointer_stacks)

C14_LaneIndexing == [][C14_LaneStep]_vars /\ []C14_SizesHaveLanes

\* One buffer was ever allocated, with element size 2, and has been
\* returned: lane 2 holds it and the intermediate lane 1 exists and is empty.
C14_Witness ==
    /\ lifecycle = "alive"
    /\ m_all_pointers = <<1>>
    /\ m_pointer_stacks = <<<<>>, <<1>>>>

\* C15: while the allocator is alive the master list is append-only: a step
\* of allocate_array (raw or scoped) that finds its lane empty appends one
\* entry, every other step leaves the list as it is; the list holds no entry
\* twice, and its length is the number of blocks the heap has supplied (the
\* fresh allocations made so far).
FreshAllocations == Cardinality({p \in Pointers : heap[p].state # "unused"})

C15_FindsLaneEmpty(S) == LaneOf(m_pointer_stacks, S) = <<>>

C15_MasterListStep ==
    lifecycle = "alive" =>
        IF \E t \in Threads, S \in ElementSizes :
              /\ C15_FindsLaneEmpty(S)
              /\ Allocate(t, S) \/ \E h \in Handles : ScopedAllocate(t, S, h)
        THEN /\ Len(m_all_pointers') = Len(m_all_pointers) + 1
             /\ SubSeq(m_all_pointers', 1, Len(m_all_pointers)) = m_all_pointers
        ELSE m_all_pointers' = m_all_pointers

C15_MasterListCounts ==
    /\ \A i, j \in 1..Len(m_all_pointers) : m_all_pointers[i] = m_all_pointers[j] => i = j
    /\ Len(m_all_pointers) = FreshAllocations

C15_MasterListAppendOnly == [][C15_MasterListStep]_vars /\ []C15_MasterListCounts

\* C16: allocate_array is not atomic and the allocator excludes nothing.
\* When threads run it unlocked, with the test of line 41 and the pop of line
\* 42 as separate steps, a pop() is attempted on a lane that has become
\* empty, and a buffer a thread holds is obtained by another thread as well.
\* These states come from calls that overlap and from nothing else: as long
\* as no two calls have overlapped, no pop() has found its lane empty, no
\* buffer is held by two threads and no held buffer is resident.
C16_Misuse ==
    \/ racy.popped_empty
    \/ \E p \in Pointers :
          \/ Cardinality(Holders(p)) > 1
          \/ Holders(p) # {} /\ Resident(m_pointer_stacks, p) > 0

C16_OnlyOverlapBreaksAllocate == C16_Misuse => racy.overlapped

\* Two calls overlapped; one popped the buffer, the other then popped the
\* emptied lane and came back with the very buffer the first one holds.
C16_Witness ==
    \E t \in Threads, u \in Threads, p \in Pointers :
        /\ t # u
        /\ racy.popped_empty
        /\ racy.threads[u].pc = "undefined"
        /\ racy.threads[u].ptr = p
        /\ \E S \in ElementSizes : <<p, S>> \in held[t] /\ racy.threads[u].element_size = S
        /\ racy.threads[t].pc = "outside"

\* C17: move assignment a = std::move(b) on a live allocator, a and b being
\* the same handle included, loses no buffer and returns none twice.  The
\* buffer a held (if any) is pushed once, on top of the lane of a's element
\* size, and no handle holds it afterwards; a then holds b's former buffer
\* and element size, or nothing when a is b; b holds nothing; b's former
\* buffer is held by a alone and is not resident, so that the destruction of
\* a and b returns it once.  Nothing else changes.
C17_MoveAssignStep ==
    \A a \in Handles, b \in Handles :
        MoveAssign(a, b) /\ lifecycle = "alive" =>
            LET pa == handles[a].m_ptr
                Sa == handles[a].m_element_size
                pb == handles[b].m_ptr
            IN /\ IF pa # nullptr
                  THEN /\ Resident(m_pointer_stacks', pa) = Resident(m_pointer_stacks, pa) + 1
                       /\ LaneOf(m_pointer_stacks', Sa) =
                             Append(LaneOf(m_pointer_stacks, Sa), pa)
                       /\ \A S \in 1..Len(m_pointer_stacks') :
                             S # Sa => m_pointer_stacks'[S] = LaneOf(m_pointer_stacks, S)
                       /\ \A h \in Handles :
                             handles'[h].state = "live" => handles'[h].m_ptr # pa
                  ELSE m_pointer_stacks' = m_pointer_stacks
               /\ handles'[a].state = "live" /\ handles'[b].state = "live"
               /\ IF a = b
                  THEN handles'[a].m_ptr = nullptr
                  ELSE /\ handles'[a].m_ptr = pb
                       /\ handles'[a].m_element_size = handles[b].m_element_size
               /\ handles'[b].m_ptr = nullptr
               /\ a # b /\ pb # nullptr =>
                     /\ {h \in Handles : handles'[h].state = "live" /\ handles'[h].m_ptr = pb}
                           = {a}
                     /\ Resident(m_pointer_stacks', pb) = 0
               /\ \A h \in Handles \ {a, b} : handles'[h] = handles[h]
               /\ UNCHANGED <<m_all_pointers, heap, held, lifecycle>>

\* What the later destructions find: the source of a move holds nothing, and
\* the buffer a reassigned handle holds is held by it alone and not resident.
C17_AfterMoveAssign ==
    lifecycle = "alive" =>
        \A h \in Handles :
            handles[h].state = "live" =>
                /\ handles[h].history = "moved_from" => handles[h].m_ptr = nullptr
                /\ handles[h].history = "reassigned" /\ handles[h].m_ptr # nullptr =>
                      /\ HandleCheckouts(handles[h].m_ptr) = {h}
                      /\ Resident(m_pointer_stacks, handles[h].m_ptr) = 0

C17_MoveAssignTransfers == [][C17_MoveAssignStep]_vars /\ []C17_AfterMoveAssign

\* Handle 1 held buffer 1 and was assigned from handle 2, which held buffer
\* 2: buffer 1 is resident once, handle 1 holds buffer 2, handle 2 nothing.
C17_Witness ==
    /\ lifecycle = "alive"
    /\ handles[1].state = "live" /\ handles[1].history = "reassigned"
    /\ handles[1].m_ptr = 2
    /\ handles[2].state = "live" /\ handles[2].history = "moved_from"
    /\ handles[2].m_ptr = nullptr
    /\ Resident(m_pointer_stacks, 1) = 1
    /\ Resident(m_pointer_stacks, 2) = 0

\* C18: nothing runs on the allocator after its teardown: when the
\* allocator is destroyed while a handle still holds one of its buffers, the
\* destruction of that handle calls no deallocate_array on the destroyed
\* allocator, so no lane is pushed after teardown.
C18_NoCallAfterTeardown == ~dangling_use

\* C19: a failed heap allocation leaves the allocator as it was: the master
\* list gets no entry for it, in particular no null pointer, so that
\* teardown hands MEM_freeN only blocks that were allocated.
C19_FailedAllocationLeavesNoEntry ==
    /\ nullptr \notin MasterList
    /\ Len(m_all_pointers) = FreshAllocations
    /\ null_frees = 0

====
